---- MODULE Spec2Model ----
(***************************************************************************)
(* Model of include/iksolver.h: a FABRIK-style inverse-kinematics solver   *)
(* over a parent-pointer tree of joints, with its global path stack.       *)
(*                                                                         *)
(* Joints are heap cells numbered 1..Len(nch); NULL is 0.  A joint's       *)
(* fields are the entries of the sequences pos, len, nch, parent and       *)
(* children.                                                               *)
(*                                                                         *)
(* float is modelled by the integer grid: every value is an integer, and   *)
(* the two operations of the code that leave the grid, IK_SQRT and '/',    *)
(* round to the nearest integer.  The variable exact records that no       *)
(* rounding has taken place so far, in which case the values are those of  *)
(* real arithmetic.  0.0f/0.0f is NaN (IEEE-754, non-trapping); a position *)
(* whose coordinates are NaN is the record NaNPos.  In every place the     *)
(* code produces a NaN coordinate it produces both, so one flag per        *)
(* position suffices.                                                      *)
(*                                                                         *)
(* ik_reach_back and ik_reach_forward are tail-recursive: one action is    *)
(* one invocation, and cur, dist, tgt are the arguments of the invocation  *)
(* about to run.                                                           *)
(***************************************************************************)
EXTENDS Integers, Sequences, FiniteSets

NULL == 0
IK_ERROR == 0
IK_OK == 1

(* bounds of the model *)
MaxCalls == 2
MaxJoints == 2
MaxChildren == 2
MaxAttach == 3
Tol == 2

VARIABLES
    pos,        \* joint -> position
    len,        \* joint -> length of the segment to its parent
    nch,        \* joint -> n_children
    parent,     \* joint -> parent joint or NULL
    children,   \* joint -> sequence of n_children slots, NULL when free
    stack,      \* ik_stack.data[0 .. end-data-1]
    pc,         \* "idle", "reach_back", "reach_forward", "solve_end", "fault"
    cur, dist, tgt,     \* arguments of the pending reach invocation
    root, root_org,     \* ik_solve's locals, written by ik_reach_back
    ret,        \* value returned by the last ik_attach_joint / ik_solve
    call,       \* the public call last made, with its arguments
    pre,        \* observation: pos when the call was made
    trace,      \* observation: pushes, pops and visits of the current solve
    exact,      \* observation: no rounding so far
    ncalls      \* number of public calls made

tree == <<pos, len, nch, parent, children>>
frame == <<cur, dist, tgt, root, root_org>>
vars == <<pos, len, nch, parent, children, stack, pc, cur, dist, tgt,
          root, root_org, ret, call, pre, trace, exact, ncalls>>

Joints == 1..Len(nch)

----------------------------------------------------------------------------
(* arithmetic *)

Abs(a) == IF a < 0 THEN -a ELSE a
Sgn(a) == IF a < 0 THEN -1 ELSE 1

RECURSIVE SqrtSearch(_, _, _)
SqrtSearch(n, lo, hi) ==
    IF lo >= hi THEN lo
    ELSE LET mid == (lo + hi + 1) \div 2
         IN  IF mid * mid <= n THEN SqrtSearch(n, mid, hi)
                               ELSE SqrtSearch(n, lo, mid - 1)

FloorSqrt(n) == SqrtSearch(n, 0, IF n < 46340 THEN n ELSE 46340)

(* IK_SQRT, rounded to the nearest grid value *)
IK_SQRT(n) == LET s == FloorSqrt(n) IN IF n - s * s > s THEN s + 1 ELSE s
IsSquare(n) == LET s == FloorSqrt(n) IN s * s = n

(* a / b for b > 0, rounded to the nearest grid value *)
FDiv(a, b) == Sgn(a) * ((2 * Abs(a) + b) \div (2 * b))
Divides(b, a) == Abs(a) % b = 0

length(x, y) == IK_SQRT(x * x + y * y)

Vec(x, y) == [x |-> x, y |-> y, nan |-> FALSE]
NaNPos == [x |-> 0, y |-> 0, nan |-> TRUE]
Sub(p, q) == IF p.nan \/ q.nan THEN NaNPos ELSE Vec(p.x - q.x, p.y - q.y)
Add(p, q) == IF p.nan \/ q.nan THEN NaNPos ELSE Vec(p.x + q.x, p.y + q.y)

----------------------------------------------------------------------------
(* the tree *)

(* joints of the branch beginning at j (the joints a recursion over
   children[0 .. n_children-1] visits) *)
RECURSIVE Subtree(_)
Subtree(j) ==
    {j} \cup UNION { Subtree(children[j][i]) : i \in 1..nch[j] }

(* the joints on the way from j up to the joint without parent *)
RECURSIVE PathToRoot(_)
PathToRoot(j) ==
    IF parent[j] = NULL THEN <<j>> ELSE <<j>> \o PathToRoot(parent[j])

----------------------------------------------------------------------------
(* the path stack *)

ik_stack_push(s, joint) == Append(s, joint)
ik_stack_top(s) == IF s = <<>> THEN NULL ELSE s[Len(s)]
(* a queue instead of a stack *)
ik_stack_pop_value_fifo(s) == IF s = <<>> THEN NULL ELSE s[1]

ik_stack_pop_value(s) == IF s = <<>> THEN NULL ELSE s[Len(s)]
ik_stack_pop_rest(s) == IF s = <<>> THEN s ELSE SubSeq(s, 1, Len(s) - 1)

----------------------------------------------------------------------------
(* moving one joint *)

(* the direction taken from the joint to the target *)
ik_move_within_dist_reversed(p, distance, t) ==
    IF p.nan \/ t.nan THEN NaNPos
    ELSE LET dx == t.x - p.x
             dy == t.y - p.y
             norm_denom == length(dx, dy)
         IN  IF norm_denom = 0 THEN t
             ELSE Vec(t.x + FDiv(distance * dx, norm_denom),
                      t.y + FDiv(distance * dy, norm_denom))

(* the joint put on the target whatever the distance *)
ik_move_within_dist_snap(p, distance, t) ==
    IF p.nan \/ t.nan THEN NaNPos ELSE t

ik_move_within_dist(p, distance, t) ==
    IF p.nan \/ t.nan THEN NaNPos
    ELSE LET dx == p.x - t.x
             dy == p.y - t.y
             norm_denom == length(dx, dy)
         IN  IF norm_denom = 0 THEN t
             ELSE Vec(t.x + FDiv(distance * dx, norm_denom),
                      t.y + FDiv(distance * dy, norm_denom))

(* the result is the one of real arithmetic: 0 * dx / norm_denom is 0 however
   norm_denom was rounded *)
MoveExact(p, distance, t) ==
    IF p.nan \/ t.nan THEN TRUE
    ELSE LET dx == p.x - t.x
             dy == p.y - t.y
             n  == length(dx, dy)
         IN  (n # 0 /\ distance # 0) =>
                 /\ IsSquare(dx * dx + dy * dy)
                 /\ Divides(n, distance * dx) /\ Divides(n, distance * dy)

----------------------------------------------------------------------------
(* aligning the branches next to the path *)

(* struct ik_matrix as ik_align_branch fills it.  C and S are kept as the
   numerators of fractions over C_denom. *)
ik_matrix(from, to) ==
    IF from.nan \/ to.nan
    THEN [C |-> 0, S |-> 0, P |-> -1, denom |-> 1, nan |-> TRUE]
    ELSE LET C_denom == length(from.x, from.y) * length(to.x, to.y)
             dot == from.x * to.x + from.y * to.y
             S2  == C_denom * C_denom - dot * dot
             P   == IF from.x * to.y - from.y * to.x > 0 THEN 1 ELSE -1
         IN  IF C_denom = 0
             THEN [C |-> 0, S |-> 0, P |-> P, denom |-> 1, nan |-> TRUE]
             ELSE [C |-> dot, S |-> IK_SQRT(IF S2 > 0 THEN S2 ELSE 0),
                   P |-> P, denom |-> C_denom, nan |-> FALSE]

MatrixExact(from, to) ==
    IF from.nan \/ to.nan THEN TRUE
    ELSE LET n2f == from.x * from.x + from.y * from.y
             n2t == to.x * to.x + to.y * to.y
             dot == from.x * to.x + from.y * to.y
         IN  /\ IsSquare(n2f) /\ IsSquare(n2t)
             /\ IsSquare(n2f * n2t - dot * dot)

(* an ik_align_branch call divides by a zero C_denom *)
ZeroDenom(from, to) ==
    /\ ~from.nan /\ ~to.nan
    /\ length(from.x, from.y) * length(to.x, to.y) = 0

(* what ik_align_branch_precalc does to the position of one joint *)
AlignJoint(p, pivot, mat, offset) ==
    IF p.nan \/ pivot.nan \/ mat.nan \/ offset.nan THEN NaNPos
    ELSE LET x == p.x + offset.x - pivot.x
             y == p.y + offset.y - pivot.y
         IN  Vec(FDiv(mat.C * x - mat.P * mat.S * y, mat.denom) + pivot.x,
                 FDiv(mat.P * mat.S * x + mat.C * y, mat.denom) + pivot.y)

AlignJointExact(p, pivot, mat, offset) ==
    IF p.nan \/ pivot.nan \/ mat.nan \/ offset.nan THEN TRUE
    ELSE LET x == p.x + offset.x - pivot.x
             y == p.y + offset.y - pivot.y
         IN  /\ Divides(mat.denom, mat.C * x - mat.P * mat.S * y)
             /\ Divides(mat.denom, mat.P * mat.S * x + mat.C * y)

(* the recursion of ik_align_branch_precalc applies the same pivot, matrix
   and offset to every joint of the branch *)
ik_align_branch_precalc(P, branch, pivot, mat, offset) ==
    [k \in DOMAIN P |->
        IF k \in Subtree(branch) THEN AlignJoint(P[k], pivot, mat, offset)
        ELSE P[k]]

ik_align_branch(P, branch, from, to) ==
    ik_align_branch_precalc(P, branch, P[parent[branch]],
                            ik_matrix(from, to), Sub(to, from))

ik_align_branch_only_translate(P, branch, offset) ==
    [k \in DOMAIN P |->
        IF k \in Subtree(branch) THEN Add(P[k], offset) ELSE P[k]]

(* the for loops of ik_reach_back and ik_reach_forward over the slots
   i, i+1, ... of joint j, skipping path_child *)
RECURSIVE AlignChildren(_, _, _, _, _, _)
AlignChildren(P, j, i, path_child, from, to) ==
    IF i > nch[j] THEN P
    ELSE LET child == children[j][i]
         IN  AlignChildren(IF child # path_child
                           THEN ik_align_branch(P, child, from, to) ELSE P,
                           j, i + 1, path_child, from, to)

RECURSIVE TranslateChildren(_, _, _, _, _)
TranslateChildren(P, j, i, path_child, offset) ==
    IF i > nch[j] THEN P
    ELSE LET child == children[j][i]
         IN  TranslateChildren(IF child # path_child
                               THEN ik_align_branch_only_translate(P, child, offset)
                               ELSE P,
                               j, i + 1, path_child, offset)

(* the block "if(n_children > 1) { ... }" shared by both passes: P is the
   tree after joint j moved away from org *)
AlignSiblings(P, j, org, path_child) ==
    IF parent[j] # NULL
    THEN AlignChildren(P, j, 1, path_child,
                       Sub(org, P[parent[j]]), Sub(P[j], P[parent[j]]))
    ELSE TranslateChildren(P, j, 1, path_child, Sub(P[j], org))

AlignedJoints(j, path_child) ==
    UNION { Subtree(children[j][i]) :
                i \in { k \in 1..nch[j] : children[j][k] # path_child } }

AlignSiblingsExact(P, j, org, path_child) ==
    IF parent[j] = NULL THEN TRUE
    ELSE LET from == Sub(org, P[parent[j]])
             to   == Sub(P[j], P[parent[j]])
         IN  /\ MatrixExact(from, to)
             /\ \A k \in AlignedJoints(j, path_child) :
                    AlignJointExact(P[k], P[j], ik_matrix(from, to), Sub(to, from))

AlignSiblingsZero(P, j, org, path_child) ==
    /\ parent[j] # NULL
    /\ AlignedJoints(j, path_child) # {}
    /\ ZeroDenom(Sub(org, P[parent[j]]), Sub(P[j], P[parent[j]]))

----------------------------------------------------------------------------
(* the trees and targets the solver is run on *)

(* the slots ik_attach_joint has filled when the joints are attached in the
   order of their numbers *)
SlotsOf(par, j) ==
    LET kids == { k \in 1..Len(par) : par[k] = j }
        RECURSIVE Sorted(_)
        Sorted(S) == IF S = {} THEN <<>>
                     ELSE LET m == CHOOSE a \in S : \A b \in S : a <= b
                          IN  <<m>> \o Sorted(S \ {m})
    IN  Sorted(kids)

MkTree(par, lens, poss) ==
    [parent   |-> par,
     len      |-> lens,
     pos      |-> [j \in 1..Len(par) |-> Vec(poss[j][1], poss[j][2])],
     children |-> [j \in 1..Len(par) |-> SlotsOf(par, j)],
     nch      |-> [j \in 1..Len(par) |-> Len(SlotsOf(par, j))]]

(* every joint lies at its segment length from its parent *)
Trees ==
    { \* a root and one leaf of length 5
      MkTree(<<0, 1>>, <<0, 5>>, << <<0, 0>>, <<5, 0>> >>),
      \* a straight chain of three joints
      MkTree(<<0, 1, 2>>, <<0, 50, 50>>,
             << <<0, 0>>, <<50, 0>>, <<100, 0>> >>),
      \* a bent chain of three joints
      MkTree(<<0, 1, 2>>, <<0, 50, 50>>,
             << <<0, 0>>, <<0, 50>>, <<50, 50>> >>),
      \* a joint with two leaves below the root
      MkTree(<<0, 1, 2, 2>>, <<0, 50, 50, 50>>,
             << <<0, 0>>, <<50, 0>>, <<100, 0>>, <<50, 50>> >>),
      \* a root with two children
      MkTree(<<0, 1, 1, 2>>, <<0, 50, 50, 50>>,
             << <<0, 0>>, <<50, 0>>, <<0, 50>>, <<100, 0>> >>),
      \* two branching joints, one below the other
      MkTree(<<0, 1, 2, 2, 3, 3>>, <<0, 50, 50, 50, 50, 50>>,
             << <<0, 0>>, <<0, 50>>, <<0, 100>>, <<50, 50>>,
                <<0, 150>>, <<50, 100>> >>) }

Targets ==
    { Vec(10, 0), Vec(3, 0), Vec(0, 0), Vec(-50, 0), Vec(-110, 0), Vec(30, 40) }

Origins == { Vec(0, 0), Vec(7, -3) }

NoTrace == [push |-> 0, pop |-> 0, back |-> <<>>, fwd |-> <<>>,
            zero |-> FALSE, root_back |-> NaNPos]

NoCall == [op |-> "none", joint |-> NULL, other |-> NULL, target |-> NaNPos]

Init ==
    \E t \in Trees :
        /\ pos = t.pos /\ len = t.len /\ nch = t.nch
        /\ parent = t.parent /\ children = t.children
        /\ stack = <<>>
        /\ pc = "idle"
        /\ cur = NULL /\ dist = 0 /\ tgt = NaNPos
        /\ root = NULL /\ root_org = NaNPos
        /\ ret = IK_OK
        /\ call = NoCall
        /\ pre = t.pos
        /\ trace = NoTrace
        /\ exact = TRUE
        /\ ncalls = 0

----------------------------------------------------------------------------
(* the public functions *)

ik_init ==
    /\ pc = "idle"
    /\ ncalls < MaxCalls
    /\ stack' = <<>>
    /\ call' = [NoCall EXCEPT !.op = "ik_init"]
    /\ ncalls' = ncalls + 1
    /\ pre' = pos
    /\ UNCHANGED <<tree, pc, frame, ret, trace, exact>>

ik_translate_relative(P, j, d) ==
    [k \in DOMAIN P |-> IF k \in Subtree(j) THEN Add(P[k], d) ELSE P[k]]

ik_translate(j, to) ==
    /\ pc = "idle"
    /\ ncalls < MaxCalls
    /\ parent[j] = NULL
    /\ pos' = ik_translate_relative(pos, j, Sub(to, pos[j]))
    /\ call' = [op |-> "ik_translate", joint |-> j, other |-> NULL,
                target |-> to]
    /\ ncalls' = ncalls + 1
    /\ pre' = pos
    /\ UNCHANGED <<len, nch, parent, children, stack, pc, frame, ret,
                   trace, exact>>

(* ik_solve up to its call of ik_reach_back *)
ik_solve(effected, target) ==
    /\ pc = "idle"
    /\ ncalls < MaxCalls
    /\ pc' = "reach_back"
    /\ cur' = effected /\ tgt' = target /\ dist' = 0
    /\ root' = NULL /\ root_org' = NaNPos
    /\ call' = [op |-> "ik_solve", joint |-> effected, other |-> NULL,
                target |-> target]
    /\ ncalls' = ncalls + 1
    /\ pre' = pos
    /\ trace' = NoTrace
    /\ UNCHANGED <<tree, stack, ret, exact>>

(* one invocation of ik_reach_back(cur, tgt, dist) *)
ik_reach_back ==
    /\ pc = "reach_back"
    /\ LET effected == cur
           org == pos[effected]
           isroot == parent[effected] = NULL
           moved == [pos EXCEPT ![effected] =
                        ik_move_within_dist(org, dist, tgt)]
           path_child == ik_stack_top(stack)
           branching == nch[effected] > 1
           P == IF branching
                THEN AlignSiblings(moved, effected, org, path_child)
                ELSE moved
           pushes == ~isroot /\ nch[parent[effected]] > 1
       IN  /\ pos' = P
           /\ exact' = (/\ exact
                        /\ MoveExact(org, dist, tgt)
                        /\ branching =>
                             AlignSiblingsExact(moved, effected, org, path_child))
           /\ trace' = [trace EXCEPT
                 !.back = Append(@, effected),
                 !.push = IF pushes THEN @ + 1 ELSE @,
                 !.zero = @ \/ (branching /\
                             AlignSiblingsZero(moved, effected, org, path_child)),
                 !.root_back = IF isroot THEN P[effected] ELSE @]
           /\ IF isroot
              THEN /\ root' = effected /\ root_org' = org
                   /\ pc' = "reach_forward"
                   /\ cur' = effected /\ dist' = 0 /\ tgt' = org
                   /\ stack' = stack
              ELSE /\ stack' = IF pushes THEN ik_stack_push(stack, effected)
                               ELSE stack
                   /\ cur' = parent[effected]
                   /\ tgt' = P[effected]
                   /\ dist' = len[effected]
                   /\ UNCHANGED <<pc, root, root_org>>
    /\ UNCHANGED <<len, nch, parent, children, ret, call, pre, ncalls>>

(* one invocation of ik_reach_forward(cur, dist, tgt).  With an empty stack
   ik_stack_pop returns NULL and path_child->length reads through a null
   pointer: the call does not return. *)
ik_reach_forward ==
    /\ pc = "reach_forward"
    /\ LET org == pos[cur]
           moved == [pos EXCEPT ![cur] = ik_move_within_dist(org, dist, tgt)]
           leaf == nch[cur] = 0
           branching == nch[cur] > 1
           path_child == IF branching THEN ik_stack_pop_value(stack)
                         ELSE IF leaf THEN NULL ELSE children[cur][1]
           P == IF branching THEN AlignSiblings(moved, cur, org, path_child)
                ELSE moved
       IN  /\ pos' = P
           /\ exact' = (/\ exact
                        /\ MoveExact(org, dist, tgt)
                        /\ branching =>
                             AlignSiblingsExact(moved, cur, org, path_child))
           /\ stack' = IF branching THEN ik_stack_pop_rest(stack) ELSE stack
           /\ trace' = [trace EXCEPT
                 !.fwd = Append(@, cur),
                 !.pop = IF branching THEN @ + 1 ELSE @,
                 !.zero = @ \/ (branching /\
                             AlignSiblingsZero(moved, cur, org, path_child))]
           /\ IF leaf
              THEN /\ pc' = "solve_end"
                   /\ UNCHANGED <<cur, dist, tgt>>
              ELSE IF path_child = NULL
              THEN /\ pc' = "fault"
                   /\ UNCHANGED <<cur, dist, tgt>>
              ELSE /\ cur' = path_child
                   /\ dist' = len[path_child]
                   /\ tgt' = P[cur]
                   /\ pc' = pc
    /\ UNCHANGED <<len, nch, parent, children, root, root_org, ret, call,
                   pre, ncalls>>

(* ik_solve's return 1 *)
ik_solve_return ==
    /\ pc = "solve_end"
    /\ pc' = "idle"
    /\ ret' = IK_OK
    /\ UNCHANGED <<tree, stack, frame, call, pre, trace, exact, ncalls>>

Next ==
    \/ ik_init
    \/ \E j \in Joints, to \in Origins : ik_translate(j, to)
    \/ \E effected \in Joints, target \in Targets : ik_solve(effected, target)
    \/ ik_reach_back
    \/ ik_reach_forward
    \/ ik_solve_return

Spec == Init /\ [][Next]_vars

----------------------------------------------------------------------------
(* building a tree *)

Lengths == {5, 50}

InitBuild ==
    /\ pos = <<>> /\ len = <<>> /\ nch = <<>>
    /\ parent = <<>> /\ children = <<>>
    /\ stack = <<>>
    /\ pc = "idle"
    /\ cur = NULL /\ dist = 0 /\ tgt = NaNPos
    /\ root = NULL /\ root_org = NaNPos
    /\ ret = IK_OK
    /\ call = NoCall
    /\ pre = <<>>
    /\ trace = NoTrace
    /\ exact = TRUE
    /\ ncalls = 0

ik_new_joint(length_, n_children) ==
    /\ Len(nch) < MaxJoints
    /\ pos' = Append(pos, Vec(0, 0))
    /\ len' = Append(len, length_)
    /\ parent' = Append(parent, NULL)
    /\ nch' = Append(nch, n_children)
    /\ children' = Append(children, [i \in 1..n_children |-> NULL])
    /\ call' = [NoCall EXCEPT !.op = "ik_new_joint", !.joint = Len(nch) + 1]
    /\ UNCHANGED <<stack, pc, frame, ret, pre, trace, exact, ncalls>>

(* the loop run from the last slot down *)
FreeSlot_last(slots) ==
    IF \E i \in 1..Len(slots) : slots[i] = NULL
    THEN CHOOSE i \in 1..Len(slots) :
            /\ slots[i] = NULL
            /\ \A k \in (i + 1)..Len(slots) : slots[k] # NULL
    ELSE 0

(* the slot the loop of ik_attach_joint stops at, 0 when it runs through *)
FreeSlot(slots) ==
    IF \E i \in 1..Len(slots) : slots[i] = NULL
    THEN CHOOSE i \in 1..Len(slots) :
            /\ slots[i] = NULL
            /\ \A k \in 1..(i - 1) : slots[k] # NULL
    ELSE 0

ik_attach_joint(child, parent_) ==
    /\ ncalls < MaxAttach
    /\ LET i == FreeSlot(children[parent_])
       IN  IF i # 0
           THEN /\ children' = [children EXCEPT ![parent_][i] = child]
                /\ parent' = [parent EXCEPT ![child] = parent_]
                /\ ret' = IK_OK
           ELSE /\ ret' = IK_ERROR
                /\ UNCHANGED <<children, parent>>
    /\ call' = [NoCall EXCEPT !.op = "ik_attach_joint", !.joint = child,
                              !.other = parent_]
    /\ ncalls' = ncalls + 1
    /\ UNCHANGED <<pos, len, nch, stack, pc, frame, pre, trace, exact>>

NextBuild ==
    \/ \E l \in Lengths, n \in 0..MaxChildren : ik_new_joint(l, n)
    \/ \E child \in Joints, parent_ \in Joints : ik_attach_joint(child, parent_)

SpecBuild == InitBuild /\ [][NextBuild]_vars

----------------------------------------------------------------------------
(* vocabulary of the properties *)

(* == on two positions, as on floats: a NaN equals nothing *)
PosEq(p, q) == ~p.nan /\ ~q.nan /\ p.x = q.x /\ p.y = q.y

Dist2(p, q) == (p.x - q.x) * (p.x - q.x) + (p.y - q.y) * (p.y - q.y)

(* the squared distance of p and q is the finite number d2 *)
Dist2Is(p, q, d2) == ~p.nan /\ ~q.nan /\ Dist2(p, q) = d2

SameDist(p, q, p0, q0) ==
    ~p0.nan /\ ~q0.nan /\ Dist2Is(p, q, Dist2(p0, q0))

Range(s) == { s[i] : i \in 1..Len(s) }

Reverse(s) == [i \in 1..Len(s) |-> s[Len(s) + 1 - i]]

(* sum of the segment lengths from the root down to j *)
RECURSIVE Reach(_)
Reach(j) == IF parent[j] = NULL THEN 0 ELSE len[j] + Reach(parent[j])

TreeRoot(j) == LET path == PathToRoot(j) IN path[Len(path)]

(* ik_solve has returned *)
Solved == call.op = "ik_solve" /\ pc = "idle" /\ ncalls > 0

(* ik_solve has returned or has stopped in a null dereference *)
SolveOver == call.op = "ik_solve" /\ pc \in {"idle", "fault"}

Effected == call.joint
Target == call.target

----------------------------------------------------------------------------
(* C1: in any single ik_solve call, on any effected joint, ik_reach_back
   calls ik_stack_push as often as ik_reach_forward calls ik_stack_pop, and
   the path stack is empty when ik_solve returns. *)
C1_PushesEqualPops ==
    /\ SolveOver => trace.push = trace.pop
    /\ Solved => stack = <<>>

(* C2: after any ik_solve or ik_translate call every joint with a parent
   lies at its segment length from the parent. *)
C2_LengthPreserved ==
    (/\ pc = "idle" /\ call.op \in {"ik_solve", "ik_translate"} /\ exact)
    => \A j \in Joints :
          parent[j] # NULL =>
              Dist2Is(pos[j], pos[parent[j]], len[j] * len[j])

(* C3, as claimed: a target no farther from the root than the path is long
   is reached by the effected joint in one ik_solve call; with the root at
   (0,0) and one leaf of length 5, solve(leaf, 10, 0) leaves the leaf at
   (10,0) and solve(leaf, 3, 0) leaves it at (3,0). *)
ExampleChain ==
    /\ Len(nch) = 2 /\ len[2] = 5
    /\ PosEq(pre[1], Vec(0, 0)) /\ PosEq(pre[2], Vec(5, 0))

C3_TargetReached ==
    /\ (/\ Solved /\ exact
        /\ ~pre[TreeRoot(Effected)].nan
        /\ Dist2(Target, pre[TreeRoot(Effected)])
              <= Reach(Effected) * Reach(Effected))
       => PosEq(pos[Effected], Target)
    /\ (Solved /\ ExampleChain /\ Effected = 2
               /\ Target \in {Vec(10, 0), Vec(3, 0)})
       => PosEq(pos[2], Target)

(* C3, amended: the effected joint is on the target after one ik_solve call
   whenever the reach-back pass has put the root back on the position it had
   before the call; with the root at (0,0) and one leaf of length 5 at (5,0),
   solve(leaf, 10, 0) and solve(leaf, 3, 0) both leave the leaf at (5,0). *)
C3_TargetReachedWhenRootReturns ==
    /\ (Solved /\ exact /\ PosEq(trace.root_back, root_org))
       => PosEq(pos[Effected], Target)
    /\ (Solved /\ ExampleChain /\ Effected = 2
               /\ Target \in {Vec(10, 0), Vec(3, 0)})
       => PosEq(pos[2], Vec(5, 0)) /\ PosEq(pos[1], Vec(0, 0))

C3_Witness ==
    /\ Solved /\ exact /\ PosEq(trace.root_back, root_org)
    /\ parent[Effected] # NULL
    /\ PosEq(pos[Effected], Target)
    /\ ~PosEq(pre[Effected], Target)

(* C4: the root is, after ik_solve, where it was before the call. *)
C4_RootAnchored ==
    Solved => PosEq(pos[TreeRoot(Effected)], pre[TreeRoot(Effected)])

(* C5: ik_attach_joint puts the child into the lowest-indexed empty slot of
   the parent, sets the child's parent and returns IK_OK; with every slot
   filled it returns IK_ERROR and changes no joint.  No call changes the
   n_children a joint was created with. *)
C5_AttachContract ==
    [][ /\ \A j \in Joints : nch'[j] = nch[j]
        /\ (call'.op = "ik_attach_joint" /\ ncalls' # ncalls) =>
             LET child == call'.joint
                 p == call'.other
                 empty == { i \in 1..nch[p] : children[p][i] = NULL }
             IN  IF empty = {}
                 THEN /\ ret' = IK_ERROR
                      /\ children' = children /\ parent' = parent
                      /\ pos' = pos /\ len' = len
                 ELSE LET i == CHOOSE m \in empty : \A k \in empty : m <= k
                      IN  /\ ret' = IK_OK
                          /\ children' = [children EXCEPT ![p][i] = child]
                          /\ parent' = [parent EXCEPT ![child] = p]
                          /\ pos' = pos /\ len' = len
      ]_vars

C5_Witness ==
    /\ call.op = "ik_attach_joint" /\ ret = IK_ERROR
    /\ nch[call.other] = 2
    /\ children[call.other][1] # NULL /\ children[call.other][2] # NULL

(* C6: at every joint with more than one child that ik_solve visits, the
   branch of every child off the path keeps the distances between its joints
   and the distance of its first joint to the branching joint. *)
Visited == Range(trace.back) \cup Range(trace.fwd)

C6_SiblingRigid ==
    (Solved /\ exact) =>
        \A j \in Visited : nch[j] > 1 =>
            \A i \in 1..nch[j] :
                LET c == children[j][i]
                IN  c \notin Visited =>
                      /\ SameDist(pos[c], pos[j], pre[c], pre[j])
                      /\ \A a \in Subtree(c), b \in Subtree(c) :
                            SameDist(pos[a], pos[b], pre[a], pre[b])

(* C7: on every tree with all slots filled and for every effected joint,
   ik_solve never recurses into a null path child and returns IK_OK. *)
C7_SolveCompletes ==
    /\ pc # "fault"
    /\ Solved => ret = IK_OK

(* C8, as claimed: when the target is farther from the root than the path is
   long, every joint of the path ends on the ray from the root to the target,
   at the sum of the segment lengths from the root (within Tol). *)
OnRayAt(p, r, t, D) ==
    /\ ~p.nan /\ ~r.nan /\ ~t.nan
    /\ LET n == IK_SQRT(Dist2(t, r))
       IN  /\ n # 0
           /\ Abs(p.x - (r.x + FDiv(D * (t.x - r.x), n))) <= Tol
           /\ Abs(p.y - (r.y + FDiv(D * (t.y - r.y), n))) <= Tol

Unreachable ==
    /\ ~pre[TreeRoot(Effected)].nan
    /\ Dist2(Target, pre[TreeRoot(Effected)]) > Reach(Effected) * Reach(Effected)

PathExtended ==
    \A j \in Range(PathToRoot(Effected)) :
        OnRayAt(pos[j], pre[TreeRoot(Effected)], Target, Reach(j))

C8_StraightLine == (Solved /\ Unreachable) => PathExtended

(* C8, amended: the path ends fully extended on the ray from the root to the
   target when it is a single segment, or when its joints lay on one line
   with the root and the target before the call. *)
PathOnLine ==
    LET r == pre[TreeRoot(Effected)]
    IN  \A j \in Range(PathToRoot(Effected)) :
            /\ ~pre[j].nan
            /\ (pre[j].x - r.x) * (Target.y - r.y)
                 = (pre[j].y - r.y) * (Target.x - r.x)

C8_StraightLineFromLine ==
    (/\ Solved /\ Unreachable
     /\ Len(PathToRoot(Effected)) = 2 \/ PathOnLine)
    => PathExtended

C8_Witness ==
    /\ Solved /\ Unreachable /\ PathOnLine /\ PathExtended
    /\ Len(PathToRoot(Effected)) = 3
    /\ ~PosEq(pos[Effected], pre[Effected])

(* C9: started on a tree whose joints are all away from their parents,
   ik_solve never calls ik_align_branch with a zero 'from' or 'to', so that
   C_denom is never zero. *)
ApartFromParents(P) ==
    \A j \in Joints :
        parent[j] # NULL =>
            ~P[j].nan /\ ~P[parent[j]].nan /\ Dist2(P[j], P[parent[j]]) # 0

C9_DenominatorNotZero ==
    (call.op = "ik_solve" /\ ApartFromParents(pre)) => ~trace.zero

(* C10: for a leaf effected joint, ik_reach_forward visits the joints
   ik_reach_back visited, in the reverse order: every invocation is on the
   next joint of the path from the root to the effected joint, whether it
   was popped from the stack or is the only child; and the stack top that
   ik_reach_back leaves out of the alignment is the joint it came from. *)
C10_ForwardRetracesBack ==
    (call.op = "ik_solve" /\ nch[Effected] = 0) =>
        /\ pc # "fault"
        /\ (pc = "reach_back" /\ trace.back # <<>> /\ nch[cur] > 1) =>
              ik_stack_top(stack) = trace.back[Len(trace.back)]
        /\ pc = "reach_forward" =>
              /\ trace.back = PathToRoot(Effected)
              /\ Len(trace.fwd) < Len(trace.back)
              /\ trace.fwd = SubSeq(Reverse(trace.back), 1, Len(trace.fwd))
              /\ cur = Reverse(trace.back)[Len(trace.fwd) + 1]
        /\ pc \in {"solve_end", "idle"} => trace.fwd = Reverse(trace.back)

C10_Witness ==
    /\ Solved /\ nch[Effected] = 0
    /\ trace.pop = 2 /\ Len(trace.fwd) = 4
    /\ trace.fwd = Reverse(trace.back)

====
